---- MODULE Spec2Model ----
(***************************************************************************)
(* Model of lesson7_files/export_data.py: the type normalizer              *)
(* to_python_types and the export orchestrator export_data, which loads    *)
(* the sales datasets, asks the metrics calculator for a report and writes *)
(* eight JSON files into OUTPUT_DIR.                                       *)
(*                                                                         *)
(* Python values are tagged records: the tag t is the Python type, scalars *)
(* carry a number n (or a string s), containers carry sequences.           *)
(***************************************************************************)
EXTENDS Integers, Sequences, FiniteSets, TLC

VARIABLES
    pc,               \* position of export_data in its body
    comparison_year,  \* the configured COMPARISON_YEAR (Unset for None)
    source,           \* the delivered orders the Data Loader holds
    requests,         \* the create_sales_dataset calls made so far
    sales_data,       \* line 48
    comparison_data,  \* line 54..60
    combined_data,    \* line 62..67
    report,           \* line 71
    dir_exists,       \* whether OUTPUT_DIR exists
    disk,             \* file name -> [status, content] inside OUTPUT_DIR
    calc,             \* line 70: the dataset the BusinessMetricsCalculator holds
    fs_log,           \* what this run asked of the file system, in order:
                      \* OUTPUT_DIR for the mkdir, a file name for each open(.., 'w')
    error,            \* the uncaught exception that ended the run, "" if none
    data,             \* argument of a to_python_types call under test
    result            \* what that call returned

vars == <<pc, comparison_year, source, requests, sales_data, comparison_data,
          combined_data, calc, report, dir_exists, disk, fs_log, error, data, result>>

(***************************************************************************)
(* Bounds of the model.                                                    *)
(***************************************************************************)
MaxRows == 2          \* rows of a bounded source dataset
MaxMonths == 2        \* rows of monthly_trends
MaxCategories == 20   \* entries of top_categories (more than the head limit)
MaxLen == 1           \* elements of a container handed to to_python_types

(***************************************************************************)
(* Configuration, lines 14..19.                                            *)
(***************************************************************************)
ANALYSIS_YEAR == 2023
COMPARISON_YEAR == 2022
OtherYear == COMPARISON_YEAR - 1   \* a year outside the two configured ones
Unset == 0            \* COMPARISON_YEAR = None: falsy at line 55
NaN == -1             \* a missing review_score (what notna() rejects)
HeadLimit == 15       \* head(15) and [:15]

(***************************************************************************)
(* Python values.                                                          *)
(***************************************************************************)
PyNone == [t |-> "NoneType", n |-> 0]
PyInt(n) == [t |-> "int", n |-> n]
PyFloat(n) == [t |-> "float", n |-> n]
NpInt(n) == [t |-> "np.int64", n |-> n]
NpFloat(n) == [t |-> "np.float64", n |-> n]
PyStr(s) == [t |-> "str", s |-> s]
PyList(items) == [t |-> "list", items |-> items]
NdArray(items) == [t |-> "np.ndarray", items |-> items]
PyDict(keys, vals) == [t |-> "dict", keys |-> keys, vals |-> vals]
Series(index, values) == [t |-> "pd.Series", keys |-> index, vals |-> values]
DataFrame(columns, rows) == [t |-> "pd.DataFrame", columns |-> columns, rows |-> rows]

EmptyDict == PyDict(<<>>, <<>>)
EmptyList == PyList(<<>>)

\* A dict literal with string keys.
StrDict(names, vals) == PyDict([i \in DOMAIN names |-> PyStr(names[i])], vals)

NativeScalarTypes == {"NoneType", "int", "float", "str"}

\* dict.get(key, default) for a string key.
Get(d, key, default) ==
    IF \E i \in DOMAIN d.keys : d.keys[i] = PyStr(key)
    THEN d.vals[CHOOSE i \in DOMAIN d.keys :
                    /\ d.keys[i] = PyStr(key)
                    /\ \A j \in DOMAIN d.keys : d.keys[j] = PyStr(key) => i <= j]
    ELSE default

Has(d, key) == \E i \in DOMAIN d.keys : d.keys[i] = PyStr(key)

(***************************************************************************)
(* pandas / numpy conversions used by the script.  A numeric cell, label   *)
(* or element comes out of to_dict() / tolist() as the native Python       *)
(* number; strings and None come out as they are.                          *)
(***************************************************************************)
BoxNative(v) ==
    IF v.t = "np.int64" THEN PyInt(v.n)
    ELSE IF v.t = "np.float64" THEN PyFloat(v.n)
    ELSE v

\* DataFrame.to_dict(orient='records'): one dict per row, column -> cell.
ToDictRecords(df) ==
    PyList([r \in DOMAIN df.rows |->
              PyDict([c \in DOMAIN df.columns |-> PyStr(df.columns[c])],
                     [c \in DOMAIN df.columns |-> BoxNative(df.rows[r][c])])])

\* Series.to_dict(): label -> value.
SeriesToDict(sr) ==
    PyDict([i \in DOMAIN sr.keys |-> BoxNative(sr.keys[i])],
           [i \in DOMAIN sr.vals |-> BoxNative(sr.vals[i])])

\* ndarray.tolist()
ToList(arr) == PyList([i \in DOMAIN arr.items |-> BoxNative(arr.items[i])])

\* The last n rows instead of the first.
DfTail(df, n) ==
    DataFrame(df.columns,
              SubSeq(df.rows, IF Len(df.rows) < n THEN 1 ELSE Len(df.rows) - n + 1,
                     Len(df.rows)))

\* DataFrame.head(n)
DfHead(df, n) ==
    DataFrame(df.columns, SubSeq(df.rows, 1, IF Len(df.rows) < n THEN Len(df.rows) ELSE n))

\* list[:n]
Slice(items, n) == SubSeq(items, 1, IF Len(items) < n THEN Len(items) ELSE n)

\* hasattr(v, 'to_dict')
HasToDict(v) == v.t \in {"pd.DataFrame", "pd.Series"}

(***************************************************************************)
(* to_python_types, lines 21..38.                                          *)
(***************************************************************************)
RECURSIVE to_python_types(_)
to_python_types(v) ==
    IF v.t = "pd.DataFrame" THEN ToDictRecords(v)
    ELSE IF v.t = "pd.Series" THEN SeriesToDict(v)
    ELSE IF v.t = "np.int64" THEN PyInt(v.n)
    ELSE IF v.t = "np.float64" THEN PyFloat(v.n)
    ELSE IF v.t = "np.ndarray" THEN ToList(v)
    ELSE IF v.t = "dict"
         THEN PyDict(v.keys, [i \in DOMAIN v.vals |-> to_python_types(v.vals[i])])
    ELSE IF v.t = "list"
         THEN PyList([i \in DOMAIN v.items |-> to_python_types(v.items[i])])
    ELSE v

(***************************************************************************)
(* json.dump.  The encoder accepts str, int, float (np.float64 is a        *)
(* subclass of float) and None as values, list and dict as containers, and *)
(* str, int, float and None as dict keys; anything else is a TypeError.    *)
(* The text is modelled as its sequence of tokens.                         *)
(***************************************************************************)
JsonScalarTypes == {"NoneType", "int", "float", "str", "np.float64"}

RECURSIVE JsonSerializable(_)
JsonSerializable(v) ==
    IF v.t \in JsonScalarTypes THEN TRUE
    ELSE IF v.t = "list" THEN \A i \in DOMAIN v.items : JsonSerializable(v.items[i])
    ELSE IF v.t = "dict"
         THEN /\ \A i \in DOMAIN v.keys : v.keys[i].t \in JsonScalarTypes
              /\ \A i \in DOMAIN v.vals : JsonSerializable(v.vals[i])
    ELSE FALSE

Quote(s) == "\"" \o s \o "\""

\* The text of a scalar: 5 -> 5, 5.0 -> 5.0, None -> null, 'a' -> "a".
ScalarText(v) ==
    IF v.t = "int" THEN ToString(v.n)
    ELSE IF v.t \in {"float", "np.float64"} THEN ToString(v.n) \o ".0"
    ELSE IF v.t = "NoneType" THEN "null"
    ELSE Quote(v.s)

\* A dict key is written as a string: 5 -> "5", 5.0 -> "5.0", None -> "null".
KeyText(k) == IF k.t = "str" THEN Quote(k.s) ELSE Quote(ScalarText(k))

RECURSIVE Flatten(_)
Flatten(ss) == IF ss = <<>> THEN <<>> ELSE Head(ss) \o Flatten(Tail(ss))

RECURSIVE JsonDump(_)
JsonDump(v) ==
    IF v.t = "list"
    THEN <<"[">> \o Flatten([i \in DOMAIN v.items |->
                     (IF i > 1 THEN <<",">> ELSE <<>>) \o JsonDump(v.items[i])]) \o <<"]">>
    ELSE IF v.t = "dict"
    THEN <<"{">> \o Flatten([i \in DOMAIN v.keys |->
                     (IF i > 1 THEN <<",">> ELSE <<>>)
                     \o <<KeyText(v.keys[i]), ":">> \o JsonDump(v.vals[i])]) \o <<"}">>
    ELSE <<ScalarText(v)>>

(***************************************************************************)
(* The Data Loader.  A dataset is a DataFrame with the columns             *)
(* purchase_year and review_score; source holds the delivered orders of    *)
(* every month, so the month filter None and the status filter 'delivered' *)
(* keep every row and the year filter selects.                             *)
(***************************************************************************)
DatasetColumns == <<"purchase_year", "review_score">>

ColumnIndex(df, name) == CHOOSE c \in DOMAIN df.columns : df.columns[c] = name

Column(df, name) == [r \in DOMAIN df.rows |-> df.rows[r][ColumnIndex(df, name)]]

create_sales_dataset(src, year_filter) ==
    DataFrame(src.columns,
              SelectSeq(src.rows,
                        LAMBDA row : \/ year_filter = Unset
                                     \/ row[ColumnIndex(src, "purchase_year")].n = year_filter))

Request(year_filter) ==
    [year_filter |-> year_filter, month_filter |-> "None", status_filter |-> "delivered"]

\* df[df['purchase_year'].isin(years)], line 67
FilterYearIsin(df, years) ==
    DataFrame(df.columns,
              SelectSeq(df.rows,
                        LAMBDA row : row[ColumnIndex(df, "purchase_year")].n \in years))

(***************************************************************************)
(* The eight export records, lines 81..172.                                *)
(***************************************************************************)
Zero == PyInt(0)

\* The average order value looked up under the name it is exported as.
KpiMetricsSameKey(rep) ==
    StrDict(<<"total_orders", "total_revenue", "avg_order_value",
              "revenue_growth_pct", "unique_customers", "fast_delivery_pct">>,
            <<Get(Get(rep, "revenue_metrics", EmptyDict), "total_orders", Zero),
              Get(Get(rep, "revenue_metrics", EmptyDict), "total_revenue", Zero),
              Get(Get(rep, "revenue_metrics", EmptyDict), "avg_order_value", Zero),
              Get(Get(rep, "revenue_metrics", EmptyDict), "revenue_growth_pct", Zero),
              Get(Get(rep, "customer_metrics", EmptyDict), "unique_customers", Zero),
              Get(Get(rep, "delivery_metrics", EmptyDict), "fast_delivery_percentage", Zero)>>)

\* lines 82..89
KpiMetrics(rep) ==
    StrDict(<<"total_orders", "total_revenue", "avg_order_value",
              "revenue_growth_pct", "unique_customers", "fast_delivery_pct">>,
            <<Get(Get(rep, "revenue_metrics", EmptyDict), "total_orders", Zero),
              Get(Get(rep, "revenue_metrics", EmptyDict), "total_revenue", Zero),
              Get(Get(rep, "revenue_metrics", EmptyDict), "average_order_value", Zero),
              Get(Get(rep, "revenue_metrics", EmptyDict), "revenue_growth_pct", Zero),
              Get(Get(rep, "customer_metrics", EmptyDict), "unique_customers", Zero),
              Get(Get(rep, "delivery_metrics", EmptyDict), "fast_delivery_percentage", Zero)>>)

\* The year taken from the row when it has one.
MonthlyMappedSourceYear(item) ==
    StrDict(<<"month", "revenue", "year", "orders">>,
            <<Get(item, "month", Zero), Get(item, "revenue", Zero),
              Get(item, "year", PyInt(ANALYSIS_YEAR)), Get(item, "orders", Zero)>>)

\* lines 101..106
MonthlyMapped(item) ==
    StrDict(<<"month", "revenue", "year", "orders">>,
            <<Get(item, "month", Zero), Get(item, "revenue", Zero),
              PyInt(ANALYSIS_YEAR), Get(item, "orders", Zero)>>)

\* lines 95..109
MonthlyData(rep) ==
    LET monthly_trends == Get(rep, "monthly_trends", EmptyList)
    IN  IF HasToDict(monthly_trends)
        THEN LET monthly_data == ToDictRecords(monthly_trends)
             IN  PyList([i \in DOMAIN monthly_data.items |->
                           MonthlyMapped(monthly_data.items[i])])
        ELSE monthly_trends

\* lines 122..127
CategoryMapped(cat) ==
    StrDict(<<"category", "revenue", "orders", "items_sold">>,
            <<Get(cat, "product_category_name", PyStr("")), Get(cat, "total_revenue", Zero),
              Get(cat, "unique_orders", Zero), Get(cat, "items_sold", Zero)>>)

\* lines 115..130
CategoriesData(rep) ==
    LET product_perf == Get(rep, "product_performance", EmptyDict)
        categories_df == Get(product_perf, "top_categories", EmptyList)
    IN  IF HasToDict(categories_df)
        THEN LET categories_data == ToDictRecords(DfHead(categories_df, HeadLimit))
             IN  PyList([i \in DOMAIN categories_data.items |->
                           CategoryMapped(categories_data.items[i])])
        ELSE IF categories_df.t = "list"
             THEN PyList(Slice(categories_df.items, HeadLimit))
             ELSE EmptyList

\* No row dropped.
NotNaKeepAll(cells) == cells

\* Series.notna() on the review_score column, line 139
NotNa(cells) == SelectSeq(cells, LAMBDA c : c.n # NaN)

\* The distinct elements of a sequence, in order of first appearance.
RECURSIVE Unique(_)
Unique(s) ==
    IF s = <<>> THEN <<>>
    ELSE LET front == Unique(SubSeq(s, 1, Len(s) - 1))
             last == s[Len(s)]
         IN  IF \E i \in DOMAIN front : front[i] = last THEN front ELSE Append(front, last)

Count(s, x) == Cardinality({i \in DOMAIN s : s[i] = x})

\* Insert k behind every key that is at least as frequent (a stable sort by
\* descending count).
InsertByCount(sorted, k, s) ==
    LET pos == Cardinality({i \in DOMAIN sorted : Count(s, sorted[i]) >= Count(s, k)})
    IN  SubSeq(sorted, 1, pos) \o <<k>> \o SubSeq(sorted, pos + 1, Len(sorted))

RECURSIVE SortByCount(_, _)
SortByCount(keys, s) ==
    IF keys = <<>> THEN <<>>
    ELSE InsertByCount(SortByCount(SubSeq(keys, 1, Len(keys) - 1), s), keys[Len(keys)], s)

\* Series.value_counts(): distinct value -> number of occurrences (int64),
\* most frequent first.
ValueCounts(cells) ==
    LET keys == SortByCount(Unique(cells), cells)
    IN  Series(keys, [i \in DOMAIN keys |-> NpInt(Count(cells, keys[i]))])

\* lines 139..140
ScoreCounts(combined) ==
    SeriesToDict(ValueCounts(NotNa(Column(combined, "review_score"))))

\* lines 136..149
ReviewsExport(rep, combined) ==
    LET customer_satisfaction == Get(rep, "customer_satisfaction", EmptyDict)
    IN  StrDict(<<"score_counts", "average_score", "total_reviews",
                  "score_5_percentage", "score_4_plus_percentage">>,
                <<ScoreCounts(combined),
                  Get(customer_satisfaction, "avg_review_score", Zero),
                  Get(customer_satisfaction, "total_reviews", Zero),
                  Get(customer_satisfaction, "score_5_percentage", Zero),
                  Get(customer_satisfaction, "score_4_plus_percentage", Zero)>>)

\* line 155
GeoData(rep) == Get(rep, "geographic_performance", EmptyList)
\* The default of the geographic export used for the delivery export.
DeliveryStatsListDefault(rep) == Get(rep, "delivery_performance", EmptyList)

\* line 160
DeliveryStats(rep) == Get(rep, "delivery_performance", EmptyDict)
\* line 165
PaymentAnalysis(rep) == Get(rep, "payment_analysis", EmptyDict)
\* line 170
CustomerSegments(rep) == Get(rep, "customer_segments", EmptyDict)

\* The file names in the order the script writes them.
FileNames == <<"kpi_metrics.json", "revenue.json", "categories.json", "reviews.json",
               "geo.json", "delivery.json", "payments.json", "customers.json">>

OUTPUT_DIR == "EDA_Refactored/data"

(***************************************************************************)
(* Inputs: the source datasets the loader may hold and the reports the     *)
(* Metrics Calculator may return.                                          *)
(***************************************************************************)
SeqsUpTo(S, n) == UNION {[1..k -> S] : k \in 0..n}

Years == {OtherYear, COMPARISON_YEAR, ANALYSIS_YEAR}
ReviewScores == {NaN, 3, 4, 5}

OrderRow(year, score) == <<NpInt(year), NpFloat(score)>>

\* The review scores 5, 5, 4, 3 and a missing one.
ExampleDataset ==
    DataFrame(DatasetColumns,
              <<OrderRow(ANALYSIS_YEAR, 5), OrderRow(ANALYSIS_YEAR, 5),
                OrderRow(COMPARISON_YEAR, 4), OrderRow(ANALYSIS_YEAR, 3),
                OrderRow(ANALYSIS_YEAR, NaN)>>)

Datasets ==
    {DataFrame(DatasetColumns, rows) :
        rows \in SeqsUpTo({OrderRow(y, sc) : y \in Years, sc \in ReviewScores}, MaxRows)}
    \cup {ExampleDataset}

BaselineDatasets == {ExampleDataset}

GroupNames == <<"revenue_metrics", "customer_metrics", "delivery_metrics",
                "monthly_trends", "product_performance", "customer_satisfaction",
                "geographic_performance", "delivery_performance",
                "payment_analysis", "customer_segments">>

RevenueFields == <<"total_orders", "total_revenue", "average_order_value",
                   "revenue_growth_pct">>

\* The entries of a dict whose string key is in names.
Restrict(d, names) ==
    LET idx == SelectSeq([i \in DOMAIN d.keys |-> i], LAMBDA i : d.keys[i].s \in names)
    IN  PyDict([j \in DOMAIN idx |-> d.keys[idx[j]]], [j \in DOMAIN idx |-> d.vals[idx[j]]])

\* The dict with the value of one key replaced.
With(d, name, value) ==
    PyDict(d.keys, [i \in DOMAIN d.vals |-> IF d.keys[i] = PyStr(name) THEN value ELSE d.vals[i]])

RevenueMetrics == StrDict(RevenueFields, <<NpInt(7), NpFloat(900), NpFloat(128), NpFloat(12)>>)

\* monthly_trends of n months; with_year adds a year column that differs
\* from the analysis year.
MonthlyTable(n, with_year) ==
    IF with_year
    THEN DataFrame(<<"year", "month", "revenue", "orders">>,
                   [i \in 1..n |-> <<NpInt(COMPARISON_YEAR), NpInt(i), NpFloat(100 * i), NpInt(5 * i)>>])
    ELSE DataFrame(<<"month", "revenue", "orders">>,
                   [i \in 1..n |-> <<NpInt(i), NpFloat(100 * i), NpInt(5 * i)>>])

CategoryName(i) == "category_" \o ToString(i)

\* top_categories of n categories, not ordered by any of its columns.
CategoryTable(n) ==
    DataFrame(<<"product_category_name", "total_revenue", "unique_orders", "items_sold">>,
              [i \in 1..n |-> <<PyStr(CategoryName(i)), NpFloat(((i * 7) % 11) * 10),
                                NpInt((i * 3) % 7), NpInt(2 * i)>>])

FullReport ==
    StrDict(GroupNames,
            <<RevenueMetrics,
              StrDict(<<"unique_customers">>, <<NpInt(6)>>),
              StrDict(<<"fast_delivery_percentage">>, <<NpFloat(40)>>),
              MonthlyTable(1, FALSE),
              StrDict(<<"top_categories">>, <<CategoryTable(1)>>),
              StrDict(<<"avg_review_score", "total_reviews", "score_5_percentage",
                        "score_4_plus_percentage">>,
                      <<NpFloat(4), NpInt(5), NpFloat(50), NpFloat(75)>>),
              DataFrame(<<"state", "revenue">>, <<<<PyStr("SP"), NpFloat(500)>>>>),
              StrDict(<<"avg_delivery_days">>, <<NpFloat(8)>>),
              StrDict(<<"credit_card">>, <<NpInt(4)>>),
              StrDict(<<"new", "returning">>, <<NpInt(3), NpInt(2)>>)>>)

Range(s) == {s[i] : i \in DOMAIN s}

\* Any subset of the metric groups absent.
AbsenceReports == {Restrict(FullReport, present) : present \in SUBSET Range(GroupNames)}

\* Any subset of the KPI fields absent from a present group.
KpiReports ==
    {With(FullReport, "revenue_metrics", Restrict(RevenueMetrics, fields)) :
        fields \in SUBSET Range(RevenueFields)}
    \cup {With(FullReport, "customer_metrics", EmptyDict),
          With(FullReport, "delivery_metrics", EmptyDict)}

\* monthly_trends as a table or as a list of row mappings.
MonthlyReports ==
    {With(FullReport, "monthly_trends", MonthlyTable(n, y)) : n \in 0..MaxMonths, y \in BOOLEAN}
    \cup {With(FullReport, "monthly_trends", ToDictRecords(MonthlyTable(n, FALSE))) :
            n \in 0..MaxMonths}

\* top_categories as a table, as a list of row mappings, or missing.
CategoryReports ==
    {With(FullReport, "product_performance", StrDict(<<"top_categories">>, <<CategoryTable(n)>>)) :
        n \in 0..MaxCategories}
    \cup {With(FullReport, "product_performance",
               StrDict(<<"top_categories">>, <<ToDictRecords(CategoryTable(n))>>)) :
            n \in 0..MaxCategories}
    \cup {With(FullReport, "product_performance", EmptyDict)}

\* A group keyed by numpy integers (payments by number of installments).
NumpyKeyReports ==
    {With(FullReport, "payment_analysis", PyDict(<<NpInt(1), NpInt(2)>>, <<NpInt(4), NpInt(3)>>))}

Reports == AbsenceReports \cup KpiReports \cup MonthlyReports \cup CategoryReports
           \cup NumpyKeyReports

BaselineReports == {FullReport, Restrict(FullReport, {})}

(***************************************************************************)
(* The state of OUTPUT_DIR before the run: missing, empty, or holding the  *)
(* eight files of an earlier run.                                          *)
(***************************************************************************)
NoDisk == [f \in {} |-> 0]
OldFile == [status |-> "old", content |-> <<"old">>]
OldDisk == [f \in Range(FileNames) |-> OldFile]

InitialDisks == {[dir |-> FALSE, files |-> NoDisk], [dir |-> TRUE, files |-> NoDisk],
                 [dir |-> TRUE, files |-> OldDisk]}

FreshDisks == {[dir |-> FALSE, files |-> NoDisk]}

(***************************************************************************)
(* export_data, lines 40..179.                                             *)
(***************************************************************************)
InitExport(datasets, disks) ==
    /\ pc = "load"
    /\ comparison_year \in {COMPARISON_YEAR, Unset}
    /\ source \in datasets
    /\ requests = <<>>
    /\ sales_data = PyNone
    /\ comparison_data = PyNone
    /\ combined_data = PyNone
    /\ calc = PyNone
    /\ report = PyNone
    /\ \E d \in disks : dir_exists = d.dir /\ disk = d.files
    /\ fs_log = <<>>
    /\ error = ""
    /\ data = PyNone
    /\ result = PyNone

Init == InitExport(BaselineDatasets, InitialDisks)

InitData == InitExport(Datasets, FreshDisks)

\* An uncaught exception ends the run.
Abort(e) == pc' = "aborted" /\ error' = e

\* The output directory made before anything is loaded.
LoadAfterMkdir ==
    /\ pc = "load"
    /\ fs_log' = Append(fs_log, OUTPUT_DIR)
    /\ dir_exists' = TRUE
    /\ \/ pc' = "sales" /\ error' = error
       \/ Abort("LoaderError")
    /\ UNCHANGED <<comparison_year, source, requests, sales_data, comparison_data,
                   combined_data, calc, report, disk, data, result>>

\* line 45
LoadAndProcessData ==
    /\ pc = "load"
    /\ \/ pc' = "sales" /\ error' = error
       \/ Abort("LoaderError")
    /\ UNCHANGED <<comparison_year, source, requests, sales_data, comparison_data,
                   combined_data, calc, report, dir_exists, disk, fs_log, data, result>>

\* lines 48..52
CreateSalesData ==
    /\ pc = "sales"
    /\ requests' = Append(requests, Request(ANALYSIS_YEAR))
    /\ \/ /\ sales_data' = create_sales_dataset(source, ANALYSIS_YEAR)
          /\ pc' = "comparison"
          /\ error' = error
       \/ /\ Abort("LoaderError")
          /\ sales_data' = sales_data
    /\ UNCHANGED <<comparison_year, source, comparison_data, combined_data, calc,
                   report, dir_exists, disk, fs_log, data, result>>

\* lines 54..60
CreateComparisonData ==
    /\ pc = "comparison"
    /\ \/ /\ comparison_year = Unset
          /\ comparison_data' = PyNone
          /\ requests' = requests
          /\ pc' = "combined"
          /\ error' = error
       \/ /\ comparison_year # Unset
          /\ requests' = Append(requests, Request(comparison_year))
          /\ comparison_data' = create_sales_dataset(source, comparison_year)
          /\ pc' = "combined"
          /\ error' = error
       \/ /\ comparison_year # Unset
          /\ requests' = Append(requests, Request(comparison_year))
          /\ comparison_data' = comparison_data
          /\ Abort("LoaderError")
    /\ UNCHANGED <<comparison_year, source, sales_data, combined_data, calc, report,
                   dir_exists, disk, fs_log, data, result>>

\* The unfiltered dataset requested whether or not a comparison year is set.
BuildCombinedUnfiltered ==
    /\ pc = "combined"
    /\ requests' = Append(requests, Request(Unset))
    /\ \/ /\ combined_data' = FilterYearIsin(create_sales_dataset(source, Unset),
                                             {ANALYSIS_YEAR, comparison_year})
          /\ pc' = "calc"
          /\ error' = error
       \/ /\ combined_data' = combined_data
          /\ Abort("LoaderError")
    /\ UNCHANGED <<comparison_year, source, sales_data, comparison_data, calc, report,
                   dir_exists, disk, fs_log, data, result>>

\* lines 62..67
BuildCombined ==
    /\ pc = "combined"
    /\ \/ /\ comparison_data = PyNone
          /\ combined_data' = sales_data
          /\ requests' = requests
          /\ pc' = "calc"
          /\ error' = error
       \/ /\ comparison_data # PyNone
          /\ requests' = Append(requests, Request(Unset))
          /\ combined_data' = FilterYearIsin(create_sales_dataset(source, Unset),
                                             {ANALYSIS_YEAR, comparison_year})
          /\ pc' = "calc"
          /\ error' = error
       \/ /\ comparison_data # PyNone
          /\ requests' = Append(requests, Request(Unset))
          /\ combined_data' = combined_data
          /\ Abort("LoaderError")
    /\ UNCHANGED <<comparison_year, source, sales_data, comparison_data, calc, report,
                   dir_exists, disk, fs_log, data, result>>

\* lines 70..74: the calculator is built from combined_data and returns some
\* report, or raises.
GenerateReport(reports) ==
    /\ pc = "calc"
    /\ calc' = combined_data
    /\ \/ /\ \E r \in reports : report' = r
          /\ pc' = "mkdir"
          /\ error' = error
       \/ /\ Abort("CalculatorError")
          /\ report' = report
    /\ UNCHANGED <<comparison_year, source, requests, sales_data, comparison_data,
                   combined_data, dir_exists, disk, fs_log, data, result>>

\* line 79: Path(OUTPUT_DIR).mkdir(parents=True, exist_ok=True)
MakeOutputDir ==
    /\ pc = "mkdir"
    /\ fs_log' = Append(fs_log, OUTPUT_DIR)
    /\ \/ /\ dir_exists' = TRUE
          /\ pc' = "kpi"
          /\ error' = error
       \/ /\ ~dir_exists
          /\ dir_exists' = dir_exists
          /\ Abort("OSError")
    /\ UNCHANGED <<comparison_year, source, requests, sales_data, comparison_data,
                   combined_data, calc, report, disk, data, result>>

\* A failed dump that removes what the run wrote so far.
WriteJsonCleanup(file, value, next) ==
    /\ fs_log' = Append(fs_log, file)
    /\ \/ /\ disk' = disk
          /\ Abort("OSError")
       \/ /\ disk' = [f \in {} |-> 0]
          /\ \E e \in {"OSError"} \cup (IF JsonSerializable(to_python_types(value))
                                        THEN {} ELSE {"TypeError"}) : Abort(e)
       \/ /\ JsonSerializable(to_python_types(value))
          /\ disk' = (file :> [status |-> "complete",
                               content |-> JsonDump(to_python_types(value))]) @@ disk
          /\ pc' = next
          /\ error' = error
    /\ UNCHANGED <<comparison_year, source, requests, sales_data, comparison_data,
                   combined_data, calc, report, dir_exists, data, result>>

\* with open(file, 'w') as f: json.dump(to_python_types(value), f, ...)
\* open() may fail and leave the file as it was; once it succeeded the file
\* is truncated, and a dump that raises (TypeError of the encoder, OSError
\* of the write) leaves an incomplete text behind.
WriteJson(file, value, next) ==
    /\ fs_log' = Append(fs_log, file)
    /\ \/ /\ disk' = disk
          /\ Abort("OSError")
       \/ /\ disk' = (file :> [status |-> "partial", content |-> <<>>]) @@ disk
          /\ \E e \in {"OSError"} \cup (IF JsonSerializable(to_python_types(value))
                                        THEN {} ELSE {"TypeError"}) : Abort(e)
       \/ /\ JsonSerializable(to_python_types(value))
          /\ disk' = (file :> [status |-> "complete",
                               content |-> JsonDump(to_python_types(value))]) @@ disk
          /\ pc' = next
          /\ error' = error
    /\ UNCHANGED <<comparison_year, source, requests, sales_data, comparison_data,
                   combined_data, calc, report, dir_exists, data, result>>

\* lines 81..92
ExportKpi == pc = "kpi" /\ WriteJson(FileNames[1], KpiMetrics(report), "revenue")
\* lines 94..112
ExportRevenue == pc = "revenue" /\ WriteJson(FileNames[2], MonthlyData(report), "categories")
\* lines 114..133
ExportCategories ==
    pc = "categories" /\ WriteJson(FileNames[3], CategoriesData(report), "reviews")
\* lines 135..152
ExportReviews ==
    pc = "reviews" /\ WriteJson(FileNames[4], ReviewsExport(report, combined_data), "geo")
\* lines 154..157
ExportGeo == pc = "geo" /\ WriteJson(FileNames[5], GeoData(report), "delivery")
\* The delivery statistics written under the name of the file before it.
ExportDeliveryIntoGeo ==
    pc = "delivery" /\ WriteJson(FileNames[5], DeliveryStats(report), "payments")

\* lines 159..162
ExportDelivery == pc = "delivery" /\ WriteJson(FileNames[6], DeliveryStats(report), "payments")
\* lines 164..167
ExportPayments ==
    pc = "payments" /\ WriteJson(FileNames[7], PaymentAnalysis(report), "customers")
\* lines 169..172
ExportCustomers ==
    pc = "customers" /\ WriteJson(FileNames[8], CustomerSegments(report), "listing")

\* lines 174..179
ListFiles ==
    /\ pc = "listing"
    /\ pc' = "done"
    /\ UNCHANGED <<comparison_year, source, requests, sales_data, comparison_data,
                   combined_data, calc, report, dir_exists, disk, fs_log, error,
                   data, result>>

Next ==
    \/ LoadAndProcessData
    \/ CreateSalesData
    \/ CreateComparisonData
    \/ BuildCombined
    \/ GenerateReport(Reports)
    \/ MakeOutputDir
    \/ ExportKpi
    \/ ExportRevenue
    \/ ExportCategories
    \/ ExportReviews
    \/ ExportGeo
    \/ ExportDelivery
    \/ ExportPayments
    \/ ExportCustomers
    \/ ListFiles

Spec == Init /\ [][Next]_vars

NextData ==
    \/ LoadAndProcessData
    \/ CreateSalesData
    \/ CreateComparisonData
    \/ BuildCombined
    \/ GenerateReport(BaselineReports)
    \/ MakeOutputDir
    \/ ExportKpi
    \/ ExportRevenue
    \/ ExportCategories
    \/ ExportReviews
    \/ ExportGeo
    \/ ExportDelivery
    \/ ExportPayments
    \/ ExportCustomers
    \/ ListFiles

SpecData == InitData /\ [][NextData]_vars

(***************************************************************************)
(* The values handed to to_python_types under test: scalars, flat          *)
(* containers of up to MaxLen elements, and those nested MaxDepth times    *)
(* inside a list or a dict.                                                *)
(***************************************************************************)
MaxDepth == 1

Injective(s) == \A i, j \in DOMAIN s : s[i] = s[j] => i = j

Scalars == {PyNone, PyInt(1), PyFloat(2), NpInt(3), NpFloat(4), PyStr("a")}
NumpyScalars == {NpInt(3), NpFloat(4)}
DictKeys == {PyStr("a"), NpInt(3), NpFloat(4)}
Labels == {PyStr("a"), NpInt(3)}
Cells == {NpInt(3), NpFloat(4), PyStr("a"), PyNone}

Leaves ==
    Scalars
    \cup {PyList(s) : s \in SeqsUpTo(Scalars, MaxLen)}
    \cup {NdArray(s) : s \in SeqsUpTo(NumpyScalars, MaxLen)}
    \cup UNION {{PyDict(ks, vs) : vs \in [DOMAIN ks -> Scalars]} :
                  ks \in {s \in SeqsUpTo(DictKeys, MaxLen) : Injective(s)}}
    \cup UNION {{Series(ks, vs) : vs \in [DOMAIN ks -> Cells]} :
                  ks \in {s \in SeqsUpTo(Labels, MaxLen) : Injective(s)}}
    \cup {DataFrame(<<"a">>, rows) : rows \in SeqsUpTo([1..1 -> Cells], MaxLen)}

Wrap(E) == {PyList(<<e>>) : e \in E} \cup {PyDict(<<k>>, <<e>>) : k \in DictKeys, e \in E}

RECURSIVE Nested(_)
Nested(d) == IF d = 0 THEN Leaves ELSE Nested(d - 1) \cup Wrap(Nested(d - 1))

Values == Nested(MaxDepth)

(***************************************************************************)
(* A call of to_python_types followed by json.dump of what it returned,    *)
(* as at lines 92, 112, 133, 152, 157, 162, 167 and 172.                   *)
(***************************************************************************)
InitNorm ==
    /\ pc = "call"
    /\ data \in Values
    /\ result = PyNone
    /\ error = ""
    /\ comparison_year = Unset
    /\ source = PyNone
    /\ requests = <<>>
    /\ sales_data = PyNone
    /\ comparison_data = PyNone
    /\ combined_data = PyNone
    /\ report = PyNone
    /\ dir_exists = FALSE
    /\ calc = PyNone
    /\ disk = NoDisk
    /\ fs_log = <<>>

Normalize ==
    /\ pc = "call"
    /\ result' = to_python_types(data)
    /\ pc' = "returned"
    /\ UNCHANGED <<comparison_year, source, requests, sales_data, comparison_data,
                   combined_data, calc, report, dir_exists, disk, fs_log, error, data>>

Serialize ==
    /\ pc = "returned"
    /\ error' = IF JsonSerializable(result) THEN "" ELSE "TypeError"
    /\ pc' = "dumped"
    /\ UNCHANGED <<comparison_year, source, requests, sales_data, comparison_data,
                   combined_data, calc, report, dir_exists, disk, fs_log, data, result>>

NextNorm == Normalize \/ Serialize

SpecNorm == InitNorm /\ [][NextNorm]_vars

(***************************************************************************)
(* Properties.                                                             *)
(***************************************************************************)
\* The files this run opened for writing, in order.
Written == SelectSeq(fs_log, LAMBDA p : p # OUTPUT_DIR)

EightFiles == <<"kpi_metrics.json", "revenue.json", "categories.json", "reviews.json",
                "geo.json", "delivery.json", "payments.json", "customers.json">>

Complete(f) == f \in DOMAIN disk /\ disk[f].status = "complete"

Untouched(f) == f \in DOMAIN disk => disk[f] = OldFile

\* The record the script builds for the i-th file.
RecordOf(i) ==
    <<KpiMetrics(report), MonthlyData(report), CategoriesData(report),
      ReviewsExport(report, combined_data), GeoData(report), DeliveryStats(report),
      PaymentAnalysis(report), CustomerSegments(report)>>[i]

\* The value stored under a string key that is present.
Lookup(d, key) == d.vals[CHOOSE i \in DOMAIN d.keys : d.keys[i] = PyStr(key)]

\* The native Python number of a numpy or native scalar.
Native(v) ==
    IF v.t = "np.int64" THEN [t |-> "int", n |-> v.n]
    ELSE IF v.t = "np.float64" THEN [t |-> "float", n |-> v.n]
    ELSE v

\* The rows of a table or of a list of row mappings, and a field of a row.
NRows(m) == IF m.t = "pd.DataFrame" THEN Len(m.rows) ELSE Len(m.items)

RowField(m, r, name) ==
    IF m.t = "pd.DataFrame"
    THEN Native(m.rows[r][CHOOSE c \in DOMAIN m.columns : m.columns[c] = name])
    ELSE Lookup(m.items[r], name)

Min(a, b) == IF a < b THEN a ELSE b

Occurrences(tokens, tok) == Cardinality({i \in DOMAIN tokens : tokens[i] = tok})

----------------------------------------------------------------------------
RECURSIVE IsNative(_)
IsNative(v) ==
    IF v.t \in NativeScalarTypes THEN TRUE
    ELSE IF v.t = "list" THEN \A i \in DOMAIN v.items : IsNative(v.items[i])
    ELSE IF v.t = "dict"
         THEN /\ \A i \in DOMAIN v.keys : v.keys[i].t = "str"
              /\ \A i \in DOMAIN v.vals : IsNative(v.vals[i])
    ELSE FALSE

\* C1: what to_python_types returns has only native primitives as leaves and
\* only lists and string-keyed dicts as containers, and json.dump accepts it.
C1_NativeOutput ==
    /\ pc \in {"returned", "dumped"} => IsNative(result)
    /\ pc = "dumped" => error = ""

----------------------------------------------------------------------------
\* C2: the files are opened in the fixed order, and when the run aborts at
\* the k-th file the files 1..k-1 hold their complete text and the files
\* k+1..8 are as they were before the run.
C2_EarlierFilesIntact ==
    /\ \E k \in 0..Len(EightFiles) : Written = SubSeq(EightFiles, 1, k)
    /\ pc = "aborted" =>
         LET k == Len(Written)
         IN  /\ \A i \in 1..(k - 1) :
                   /\ Complete(EightFiles[i])
                   /\ disk[EightFiles[i]].content = JsonDump(to_python_types(RecordOf(i)))
             /\ \A i \in (k + 1)..Len(EightFiles) : Untouched(EightFiles[i])

\* A serialization failure at the seventh file of a re-run.
C2_Witness ==
    /\ pc = "aborted"
    /\ error = "TypeError"
    /\ Len(Written) = 7
    /\ disk["payments.json"].status = "partial"
    /\ "customers.json" \in DOMAIN disk
    /\ disk["customers.json"] = OldFile
    /\ Complete("delivery.json")

----------------------------------------------------------------------------
\* C3: a run that ends without an error has opened exactly the eight files,
\* each once, and the directory holds them complete and nothing else.
C3_ExactlyEightFiles ==
    pc = "done" =>
        /\ Written = EightFiles
        /\ DOMAIN disk = Range(EightFiles)
        /\ \A f \in DOMAIN disk : disk[f].status = "complete"

C3_Witness == pc = "done" /\ error = "" /\ Len(Written) = 8 /\ report = FullReport

----------------------------------------------------------------------------
\* The rows of the source of the analysis year.
Primary ==
    DataFrame(DatasetColumns,
              SelectSeq(source.rows, LAMBDA row : row[1] = NpInt(ANALYSIS_YEAR)))

\* C4: with the comparison year unset, the dataset the calculator is built
\* from and the review histogram is computed from is the primary dataset: one
\* loader request, no further filtering.
C4_CombinedIsPrimary ==
    (comparison_year = Unset /\ calc # PyNone) =>
        /\ calc = Primary
        /\ combined_data = Primary
        /\ sales_data = Primary
        /\ requests = <<Request(ANALYSIS_YEAR)>>
        /\ Complete("reviews.json") =>
              disk["reviews.json"].content
                  = JsonDump(to_python_types(ReviewsExport(report, Primary)))

C4_Witness ==
    /\ comparison_year = Unset
    /\ pc = "done"
    /\ Len(calc.rows) >= 1
    /\ Len(calc.rows) < Len(source.rows)

----------------------------------------------------------------------------
\* The monthly rows with the analysis year stamped on each.
YearStamped(m) ==
    PyList([r \in 1..NRows(m) |->
              StrDict(<<"month", "revenue", "year", "orders">>,
                      <<RowField(m, r, "month"), RowField(m, r, "revenue"),
                        PyInt(ANALYSIS_YEAR), RowField(m, r, "orders")>>)])

\* C5 as claimed: whatever holds the n monthly rows, revenue.json is the n
\* rows in order, each with month, revenue, orders and year = analysis year.
C5_YearOnEveryRow ==
    (Complete("revenue.json") /\ Has(report, "monthly_trends")) =>
        disk["revenue.json"].content = JsonDump(YearStamped(Lookup(report, "monthly_trends")))

\* C5 amended: that holds when monthly_trends is a table; a monthly_trends
\* that is a list is written as it is, with no year added.
C5_YearOnEveryTableRow ==
    (Complete("revenue.json") /\ Has(report, "monthly_trends")) =>
        LET m == Lookup(report, "monthly_trends")
        IN  IF m.t = "pd.DataFrame"
            THEN disk["revenue.json"].content = JsonDump(YearStamped(m))
            ELSE disk["revenue.json"].content = JsonDump(m)

\* Two table rows that carry the comparison year in a column of their own.
C5_Witness ==
    /\ Complete("revenue.json")
    /\ Has(report, "monthly_trends")
    /\ Lookup(report, "monthly_trends").t = "pd.DataFrame"
    /\ Len(Lookup(report, "monthly_trends").rows) >= 2
    /\ Lookup(report, "monthly_trends").columns[1] = "year"
    /\ Occurrences(disk["revenue.json"].content, ToString(ANALYSIS_YEAR)) >= 2

----------------------------------------------------------------------------
HasTopCategories ==
    /\ Has(report, "product_performance")
    /\ Has(Lookup(report, "product_performance"), "top_categories")

TopCategories == Lookup(Lookup(report, "product_performance"), "top_categories")

\* The first min(n, 15) entries, in order, with the keys renamed.
FirstRenamed(c) ==
    PyList([r \in 1..Min(NRows(c), 15) |->
              StrDict(<<"category", "revenue", "orders", "items_sold">>,
                      <<RowField(c, r, "product_category_name"),
                        RowField(c, r, "total_revenue"),
                        RowField(c, r, "unique_orders"),
                        RowField(c, r, "items_sold")>>)])

\* C6 as claimed: categories.json is the first min(n, 15) entries in input
\* order with renamed keys, whatever holds the entries.
C6_FirstFifteenRenamed ==
    (Complete("categories.json") /\ HasTopCategories) =>
        disk["categories.json"].content = JsonDump(FirstRenamed(TopCategories))

\* C6 amended: that holds when top_categories is a table; of a list the
\* first min(n, 15) entries are written in order with their keys unchanged.
C6_FirstFifteen ==
    (Complete("categories.json") /\ HasTopCategories) =>
        LET c == TopCategories
        IN  IF c.t = "pd.DataFrame"
            THEN disk["categories.json"].content = JsonDump(FirstRenamed(c))
            ELSE disk["categories.json"].content
                     = JsonDump(PyList(SubSeq(c.items, 1, Min(Len(c.items), 15))))

\* A table of 20 categories exported as 15 entries.
C6_Witness ==
    /\ Complete("categories.json")
    /\ HasTopCategories
    /\ TopCategories.t = "pd.DataFrame"
    /\ Len(TopCategories.rows) = 20
    /\ Occurrences(disk["categories.json"].content, Quote("category")) = 15

----------------------------------------------------------------------------
RowsWithScore(s) ==
    Cardinality({r \in DOMAIN combined_data.rows : combined_data.rows[r][2].n = s})

RECURSIVE SumCounts(_)
SumCounts(vals) == IF vals = <<>> THEN 0 ELSE Head(vals).n + SumCounts(Tail(vals))

\* C7: score_counts of reviews.json maps each review score that occurs in the
\* combined dataset to the number of its rows, has no entry for a missing
\* score or with count 0, and its counts add up to the rows that have a score.
C7_ScoreHistogram ==
    Complete("reviews.json") =>
        LET export == ReviewsExport(report, combined_data)
            sc == Lookup(export, "score_counts")
        IN  /\ disk["reviews.json"].content = JsonDump(to_python_types(export))
            /\ sc.t = "dict"
            /\ \A i, j \in DOMAIN sc.keys : sc.keys[i] = sc.keys[j] => i = j
            /\ \A s \in ReviewScores \ {NaN} :
                   RowsWithScore(s) > 0 =>
                       \E i \in DOMAIN sc.keys :
                           sc.keys[i] = PyFloat(s) /\ sc.vals[i] = PyInt(RowsWithScore(s))
            /\ \A i \in DOMAIN sc.keys :
                   /\ sc.keys[i].n # NaN
                   /\ sc.vals[i].n > 0
                   /\ sc.vals[i].n = RowsWithScore(sc.keys[i].n)
            /\ SumCounts(sc.vals)
                   = Cardinality({r \in DOMAIN combined_data.rows :
                                     combined_data.rows[r][2].n # NaN})

\* The scores 5, 5, 4, 3 and a missing one give {5: 2, 4: 1, 3: 1}.
C7_Witness ==
    /\ Complete("reviews.json")
    /\ Column(combined_data, "review_score")
           = <<NpFloat(5), NpFloat(5), NpFloat(4), NpFloat(3), NpFloat(NaN)>>
    /\ JsonDump(ScoreCounts(combined_data))
           = <<"{", Quote("5.0"), ":", "2", ",", Quote("4.0"), ":", "1", ",",
               Quote("3.0"), ":", "1", "}">>

----------------------------------------------------------------------------
PassedThrough == <<<<"geo.json", "geographic_performance">>,
                   <<"delivery.json", "delivery_performance">>,
                   <<"payments.json", "payment_analysis">>,
                   <<"customers.json", "customer_segments">>>>

\* C8 as claimed: each of the four passed-through files whose group is
\* absent from the report is written as the empty mapping.
C8_AbsentGroupEmptyMapping ==
    \A i \in DOMAIN PassedThrough :
        (Complete(PassedThrough[i][1]) /\ ~Has(report, PassedThrough[i][2])) =>
            disk[PassedThrough[i][1]].content = <<"{", "}">>

\* C8 amended: an absent delivery, payment or customer-segment group is
\* written as the empty mapping and an absent geographic group as the empty
\* sequence; no absent group makes the encoder raise.
C8_AbsentGroupDefault ==
    \A i \in DOMAIN PassedThrough :
        /\ (Complete(PassedThrough[i][1]) /\ ~Has(report, PassedThrough[i][2])) =>
              disk[PassedThrough[i][1]].content
                  = IF PassedThrough[i][2] = "geographic_performance"
                    THEN <<"[", "]">> ELSE <<"{", "}">>
        /\ (error = "TypeError" /\ Written[Len(Written)] = PassedThrough[i][1]) =>
              Has(report, PassedThrough[i][2])

\* A run to the end on a report with no group at all.
C8_Witness ==
    /\ pc = "done"
    /\ report = EmptyDict
    /\ disk["delivery.json"].content = <<"{", "}">>
    /\ disk["geo.json"].content = <<"[", "]">>

----------------------------------------------------------------------------
KpiSources == <<<<"total_orders", "revenue_metrics", "total_orders">>,
                <<"total_revenue", "revenue_metrics", "total_revenue">>,
                <<"avg_order_value", "revenue_metrics", "average_order_value">>,
                <<"revenue_growth_pct", "revenue_metrics", "revenue_growth_pct">>,
                <<"unique_customers", "customer_metrics", "unique_customers">>,
                <<"fast_delivery_pct", "delivery_metrics", "fast_delivery_percentage">>>>

\* The scalar of a report group, 0 when the group or the field is absent.
ReportScalar(group, field) ==
    IF Has(report, group) /\ Has(Lookup(report, group), field)
    THEN Native(Lookup(Lookup(report, group), field))
    ELSE PyInt(0)

\* C9: kpi_metrics.json has exactly the six keys, each the scalar of its
\* report group, or 0 when the group or the field is absent.
C9_KpiSixKeys ==
    Complete("kpi_metrics.json") =>
        disk["kpi_metrics.json"].content
            = JsonDump(StrDict([i \in DOMAIN KpiSources |-> KpiSources[i][1]],
                               [i \in DOMAIN KpiSources |->
                                   ReportScalar(KpiSources[i][2], KpiSources[i][3])]))

\* The revenue group is present without average_order_value, the customer
\* group is present and complete.
C9_Witness ==
    /\ Complete("kpi_metrics.json")
    /\ Has(report, "revenue_metrics")
    /\ ~Has(Lookup(report, "revenue_metrics"), "average_order_value")
    /\ Has(Lookup(report, "revenue_metrics"), "total_orders")
    /\ ReportScalar("customer_metrics", "unique_customers") = PyInt(6)

----------------------------------------------------------------------------
UpstreamErrors == {"LoaderError", "CalculatorError"}

\* C10: nothing is asked of the file system before the report exists, a run
\* the loader or the calculator ended has asked nothing of it, and a step that
\* asks nothing leaves the directory and the files as they are.
C10_NoOutputBeforeReport ==
    /\ [](error \in UpstreamErrors => fs_log = <<>>)
    /\ [](fs_log # <<>> => (calc # PyNone /\ report # PyNone))
    /\ [][fs_log' = fs_log => (dir_exists' = dir_exists /\ disk' = disk)]_vars

\* The calculator failed after the three loader requests of a fresh run.
C10_Witness ==
    /\ error = "CalculatorError"
    /\ pc = "aborted"
    /\ Len(requests) = 3
    /\ ~dir_exists
    /\ disk = NoDisk

====
